---- MODULE Spec2Model ----
(***************************************************************************)
(* A model of jax/experimental/pjit.py: the parsing and validation of      *)
(* partition specifications, the memoized pjit callable, and the rules     *)
(* that rewrite a pjit call's parameters under partial evaluation and      *)
(* forward-mode differentiation.                                           *)
(***************************************************************************)
EXTENDS Integers, Sequences, FiniteSets, TLC

\* ------------------------------------------------------------------ bounds

\* Largest rank of a value and largest number of dimensions of a PartitionSpec.
MaxRank == 2
\* Largest size of one dimension of a value (0 is a legal dimension size).
MaxDimSize == 4
\* Largest size of one mesh axis.
MaxAxisSize == 2

\* The mesh axis names a declaration may mention.
AxisNames == {"x", "y"}

\* ------------------------------------------------------------- user input

\* One component of a PartitionSpec: None, a single axis name, or a tuple/list
\* of axis names (any length up to the number of names, repeats allowed).
NameTuples == UNION {[1..k -> AxisNames] : k \in 0..Cardinality(AxisNames)}

AxisSpecs ==
  {[kind |-> "None", names |-> <<>>]}
    \cup {[kind |-> "name", names |-> <<a>>] : a \in AxisNames}
    \cup {[kind |-> "tuple", names |-> t] : t \in NameTuples}

\* A leaf of the axis_resources tree: None, a PartitionSpec, or anything else.
NoneEntry == [kind |-> "None", elems |-> <<>>]

OtherEntry == [kind |-> "Other", elems |-> <<>>]

PartitionSpecs ==
  {[kind |-> "PartitionSpec", elems |-> e] :
     e \in UNION {[1..k -> AxisSpecs] : k \in 0..MaxRank}}

Entries == {NoneEntry, OtherEntry} \cup PartitionSpecs

\* The axis_resources argument: None itself, one leaf, or a pair of leaves one
\* of which is None (is_leaf keeps None leaves in the flattened tree).
AxisResourcesArgs ==
  {[isNone |-> TRUE, leaves |-> <<>>]}
    \cup {[isNone |-> FALSE, leaves |-> <<e>>] : e \in Entries}
    \cup {[isNone |-> FALSE, leaves |-> <<NoneEntry, e>>] : e \in PartitionSpecs}
    \cup {[isNone |-> FALSE, leaves |-> <<e, NoneEntry>>] : e \in PartitionSpecs}

\* resource_env.local_shape: a mapping from the mesh's axis names to sizes.
Meshes == UNION {[d -> 1..MaxAxisSize] : d \in SUBSET AxisNames}

\* The shape of a value.
Shapes == UNION {[1..k -> 0..MaxDimSize] : k \in 0..MaxRank}

\* ------------------------------------------------------ ParsedPartitionSpec

ParsedPartitionSpec(user_spec, partitions) ==
  [partitions |-> partitions, user_spec |-> user_spec]

REPLICATED == ParsedPartitionSpec(NoneEntry, <<>>)

\* PartitionSpec('x'), parsed.
PX == ParsedPartitionSpec(
        [kind |-> "PartitionSpec", elems |-> <<[kind |-> "name", names |-> <<"x">>]>>],
        <<<<"x">>>>)

\* __eq__ compares (partitions, user_spec).
PspecEq(p, q) == p.partitions = q.partitions /\ p.user_spec = q.user_spec

\* __hash__ hashes the partitions alone.
PspecHash(p) == p.partitions

\* from_user_input: [err, val]; err is "none" or "TypeError".
from_user_input(entry) ==
  IF entry.kind = "None"
    THEN [err |-> "none", val |-> ParsedPartitionSpec(entry, <<>>)]
  ELSE IF entry.kind # "PartitionSpec"
    THEN [err |-> "TypeError", val |-> REPLICATED]
  ELSE [err |-> "none",
        val |-> ParsedPartitionSpec(entry,
                  [i \in 1..Len(entry.elems) |-> entry.elems[i].names])]

\* it.chain.from_iterable over the partitions of one placement.
RECURSIVE Chain(_)
Chain(parts) ==
  IF parts = <<>> THEN <<>> ELSE Head(parts) \o Chain(Tail(parts))

\* Counter: the number of occurrences of a in the sequence s.
RECURSIVE Count(_, _)
Count(s, a) ==
  IF s = <<>> THEN 0
  ELSE (IF Head(s) = a THEN 1 ELSE 0) + Count(Tail(s), a)

\* [r for r, c in resource_counts.items() if c > 1]: the names counted more
\* than once, in the order of their first occurrence.
RECURSIVE MultipleUsesFrom(_, _, _)
MultipleUsesFrom(s, all, seen) ==
  IF s = <<>> THEN <<>>
  ELSE LET a == Head(s) IN
       IF a \notin seen /\ Count(all, a) > 1
         THEN <<a>> \o MultipleUsesFrom(Tail(s), all, seen \cup {a})
         ELSE MultipleUsesFrom(Tail(s), all, seen \cup {a})

multiple_uses(p) == MultipleUsesFrom(Chain(p.partitions), Chain(p.partitions), {})

NoError == [err |-> "none", at |-> 0, dim |-> 0, axes |-> <<>>, size |-> 0]

\* The check of one placement, the k-th of the list.
check_unique_one(p, k) ==
  IF Len(p.partitions) = 0 THEN NoError
  ELSE IF Chain(p.partitions) = <<>>
    \* most_common(1) of an empty Counter is [], and [][0] raises.
    THEN [NoError EXCEPT !.err = "IndexError", !.at = k]
  ELSE IF multiple_uses(p) # <<>>
    THEN [NoError EXCEPT !.err = "ValueError", !.at = k, !.axes = multiple_uses(p)]
  ELSE NoError

\* _check_unique_resources over the list of placements: the first error raised.
RECURSIVE CheckUniqueFrom(_, _)
CheckUniqueFrom(ps, k) ==
  IF k > Len(ps) THEN NoError
  ELSE IF check_unique_one(ps[k], k).err # "none" THEN check_unique_one(ps[k], k)
  ELSE CheckUniqueFrom(ps, k + 1)

\* A mutant of check_unique_resources: no placement is refused.
check_unique_skipped(ps) == NoError

check_unique_resources(ps) == CheckUniqueFrom(ps, 1)

\* The first leaf from_user_input rejects, 0 if none.
RECURSIVE FirstBadLeaf(_, _)
FirstBadLeaf(leaves, k) ==
  IF k > Len(leaves) THEN 0
  ELSE IF from_user_input(leaves[k]).err # "none" THEN k
  ELSE FirstBadLeaf(leaves, k + 1)

\* _prepare_axis_resources: [err, at, axes, entries].
prepare_axis_resources(axis_resources) ==
  IF axis_resources.isNone
    THEN [status |-> NoError, entries |-> <<REPLICATED>>]
  ELSE IF FirstBadLeaf(axis_resources.leaves, 1) # 0
    THEN [status |-> [NoError EXCEPT !.err = "TypeError",
                                     !.at = FirstBadLeaf(axis_resources.leaves, 1)],
          entries |-> <<>>]
  ELSE LET entries == [k \in 1..Len(axis_resources.leaves) |->
                         from_user_input(axis_resources.leaves[k]).val]
       IN [status |-> check_unique_resources(entries), entries |-> entries]

\* ------------------------------------------- _check_shapes_against_resources

\* A mutant of FirstUndefined: the last missing resource is reported.
LastUndefined(axes, resource_sizes) ==
  LET missing == {i \in 1..Len(axes) : axes[i] \notin DOMAIN resource_sizes}
  IN IF missing = {} THEN ""
     ELSE axes[CHOOSE i \in missing : \A j \in missing : j <= i]

\* The first resource of axis_resources missing from resource_sizes (the
\* KeyError's argument), "" if all are defined.
RECURSIVE FirstUndefined(_, _)
FirstUndefined(axes, resource_sizes) ==
  IF axes = <<>> THEN ""
  ELSE IF Head(axes) \notin DOMAIN resource_sizes THEN Head(axes)
  ELSE FirstUndefined(Tail(axes), resource_sizes)

\* np.prod([resource_sizes[resource] for resource in axis_resources]).
RECURSIVE ProdSizes(_, _)
ProdSizes(axes, resource_sizes) ==
  IF axes = <<>> THEN 1
  ELSE resource_sizes[Head(axes)] * ProdSizes(Tail(axes), resource_sizes)

\* A mutant of resource_size: only the first axis of a dimension counts.
resource_size_first_only(axes, resource_sizes) ==
  IF axes = <<>> THEN 1 ELSE resource_sizes[Head(axes)]

resource_size(axes, resource_sizes) == ProdSizes(axes, resource_sizes)

\* The loop over the dimensions of one placement, from dimension i on.
RECURSIVE CheckDimsFrom(_, _, _, _, _)
CheckDimsFrom(resource_sizes, shape, p, k, i) ==
  IF i > Len(p.partitions) THEN NoError
  ELSE LET axes == p.partitions[i]
           undef == FirstUndefined(axes, resource_sizes)
       IN IF undef # ""
            THEN [NoError EXCEPT !.err = "undefined", !.at = k, !.dim = i - 1,
                                 !.axes = <<undef>>]
          ELSE IF shape[i] % resource_size(axes, resource_sizes) # 0
            THEN [NoError EXCEPT !.err = "divisible", !.at = k, !.dim = i - 1,
                                 !.size = resource_size(axes, resource_sizes)]
          ELSE CheckDimsFrom(resource_sizes, shape, p, k, i + 1)

\* The check of the k-th (value, placement) pair.
check_shape_one(resource_sizes, shape, p, k) ==
  IF Len(shape) < Len(p.partitions)
    THEN [NoError EXCEPT !.err = "rank", !.at = k]
    ELSE CheckDimsFrom(resource_sizes, shape, p, k, 1)

Min(a, b) == IF a < b THEN a ELSE b

\* The loop over zip(flat_vals, flat_axis_resources): the first error raised.
RECURSIVE CheckShapesFrom(_, _, _, _)
CheckShapesFrom(resource_sizes, shapes, ps, k) ==
  IF k > Min(Len(shapes), Len(ps)) THEN NoError
  ELSE IF check_shape_one(resource_sizes, shapes[k], ps[k], k).err # "none"
    THEN check_shape_one(resource_sizes, shapes[k], ps[k], k)
  ELSE CheckShapesFrom(resource_sizes, shapes, ps, k + 1)

check_shapes_against_resources(resource_sizes, shapes, ps) ==
  CheckShapesFrom(resource_sizes, shapes, ps, 1)

\* ------------------------------------------------------------------- state

VARIABLES
  axis_resources,   \* the declaration given to with_sharding_constraint / pjit
  local_shape,      \* resource_env.local_shape, read at the call
  val_shape,        \* the shape of every flattened value of the call
  prepared,         \* what _prepare_axis_resources returned or raised
  checked,          \* what _check_shapes_against_resources returned or raised
  pc,               \* "start", "prepared", "raised", "checked"
  cache,            \* the memoization table of _pjit_callable: key -> executable
  tpc,              \* per thread: "idle", "compile", "store", "run"
  tcall,            \* per thread: the arguments of its call to _pjit_call_impl
  tart,             \* per thread: the executable it holds
  tcompiled,        \* per thread: whether its call invoked pxla.mesh_callable
  tretry,           \* per thread: whether its call repeats the failed call before it
  snap,             \* the cache as it was when the latest call began
  lastDone,         \* the latest call to end: its arguments and outcome
  started,          \* per call arguments: invocations of pxla.mesh_callable
  okCompiles,       \* per call arguments: invocations that returned an executable
  returned,         \* the (call arguments, executable) pairs calls have run
  nextId,           \* the identity of the next executable object
  ncalls,           \* the number of calls made
  node,             \* the parameters of the pjit call being transformed
  prev,             \* the parameters the latest rewrite was applied to
  lastOp,           \* the latest rewrite and its arguments
  again,            \* the latest rewrite applied once more to prev
  nextObj,          \* the identity of the next function object
  nrewrites,        \* the number of rewrites applied
  typed,            \* the resource typing of the call, once made
  emitted,          \* the array mappings made for the call's placements
  wrapper           \* what pjit's wrapped closes over, and its latest call

checkVars == <<axis_resources, local_shape, val_shape, prepared, checked, pc,
               wrapper>>

cacheVars == <<cache, tpc, tcall, tart, tcompiled, tretry, snap, lastDone,
               started, okCompiles, returned, nextId, ncalls>>

nodeVars == <<node, prev, lastOp, again, nextObj, nrewrites, typed, emitted>>

vars == <<checkVars, cacheVars, nodeVars>>

NotPrepared == [status |-> NoError, entries |-> <<>>]

\* No wrapper made by pjit.
NoWrapper ==
  [out_axis_resources |-> [isNone |-> TRUE, leaves |-> <<>>],
   out_prepared |-> NotPrepared, donate_argnums |-> <<>>, args |-> <<>>,
   env |-> "", raised |-> "none", seq |-> 0, cache_before |-> <<>>]

\* ------------------------------------------- the resource typing of a call

\* The named axes xmap may have bound around the call.
NamedAxes == {"i"}

NoTypeError == [err |-> "none", what |-> "", at |-> 0, overlap |-> {}]

NotTyped ==
  [done |-> FALSE, in_named |-> <<>>, out_named |-> <<>>,
   named_axis_resources |-> <<>>, body_ok |-> TRUE, result |-> NoTypeError]

\* set(it.chain.from_iterable(...)) of a tuple of tuples of mesh axes.
ChainSet(parts) == {Chain(parts)[i] : i \in 1..Len(Chain(parts))}

\* set(it.chain.from_iterable(named_axis_resources[a] for a in named_shape))
aval_resources(named_shape, named_axis_resources) ==
  UNION {{named_axis_resources[a][i] : i \in 1..Len(named_axis_resources[a])} :
         a \in named_shape}

\* _check_resources_against_named_axes, for the at-th variable.
check_resources_against_named_axes(what, at, named_shape, pos_axis_resources, named_axis_resources) ==
  LET pjit_resources == ChainSet(pos_axis_resources.partitions)
      overlap == pjit_resources
                   \cap aval_resources(named_shape, named_axis_resources)
  IN IF overlap # {}
       THEN [err |-> "JAXTypeError", what |-> what, at |-> at,
             overlap |-> overlap]
       ELSE NoTypeError

\* for v, pos_axis_resources in zip(vs, resources): the first error, from
\* position i on.
RECURSIVE CheckNamedFrom(_, _, _, _, _)
CheckNamedFrom(what, named, resources, named_axis_resources, i) ==
  IF i > Min(Len(named), Len(resources)) THEN NoTypeError
  ELSE LET r == check_resources_against_named_axes(
                  what, i, named[i], resources[i], named_axis_resources)
       IN IF r.err # "none" THEN r
          ELSE CheckNamedFrom(what, named, resources, named_axis_resources,
                              i + 1)

\* _resource_typing_pjit: in_named and out_named are the named_shape of the
\* invars and outvars of call_jaxpr, body_ok whether pxla.resource_typecheck
\* accepts call_jaxpr.
resource_typing_pjit(in_named, out_named, params, named_axis_resources, body_ok) ==
  LET ins == CheckNamedFrom("pjit input", in_named, params.in_axis_resources,
                            named_axis_resources, 1)
      outs == CheckNamedFrom("pjit output", out_named,
                             params.out_axis_resources, named_axis_resources, 1)
  IN IF ins.err # "none" THEN ins
     ELSE IF ~body_ok
       THEN [NoTypeError EXCEPT !.err = "JAXTypeError", !.what = "body"]
     ELSE outs

\* ------------------------------------------- the parameters of a pjit call

\* The number of arguments of the wrapped function.
MaxArgs == 2
\* The number of outputs of the wrapped function.
MaxOuts == 1
\* The number of constants partial evaluation prepends to the call body.
MaxConsts == 1
\* The number of rewrites applied to one call.
MaxRewrites == 3

\* The placements of the arguments and outputs of the call: declarations that
\* _prepare_axis_resources accepted.
NodePlacements == {REPLICATED, PX}

Repeat(x, n) == [i \in 1..(IF n > 0 THEN n ELSE 0) |-> x]

\* tuple(x for x, keep in zip(l, mask) if keep), from position i on.
RECURSIVE FilterFrom(_, _, _)
FilterFrom(l, mask, i) ==
  IF i > Min(Len(l), Len(mask)) THEN <<>>
  ELSE (IF mask[i] THEN <<l[i]>> ELSE <<>>) \o FilterFrom(l, mask, i + 1)

Filter(l, mask) == FilterFrom(l, mask, 1)

NumTrue(mask) == Cardinality({i \in 1..Len(mask) : mask[i]})

Masks(n) == [1..n -> BOOLEAN]

\* A HashableFunction producing output placements: the code of its function
\* and its closure. base_code and base are the innermost thunk, the one made
\* by wrapped ("wrapped", closure out_axis_resources_entries) or by
\* _pjit_init_to_final_params ("final", closure params['out_axis_resources']);
\* each layer is one new_out_axis_resources_thunk around it, whose closure
\* is layer.closure and the thunk inside, and whose nz_tangents_out_thunk
\* returns layer.nz_out.
HashableFunction(base_code, base, layers) ==
  [base_code |-> base_code, base |-> base, layers |-> layers]

NoThunk == HashableFunction("", <<>>, <<>>)

\* Calling the thunk: the innermost placements, extended layer by layer with
\* the placements of the outputs whose tangent is nonzero.
RECURSIVE CallLayers(_, _, _)
CallLayers(outs, layers, i) ==
  IF i > Len(layers) THEN outs
  ELSE CallLayers(outs \o Filter(outs, layers[i].nz_out), layers, i + 1)

ThunkCall(thunk) == CallLayers(thunk.base, thunk.layers, 1)

\* A tuple of placements compares element by element with __eq__.
PspecsEq(ps, qs) ==
  Len(ps) = Len(qs) /\ \A i \in 1..Len(ps) : PspecEq(ps[i], qs[i])

PspecsHash(ps) == [i \in 1..Len(ps) |-> PspecHash(ps[i])]

\* HashableFunction.__eq__: the same code and equal closures.
ThunkEq(f, g) ==
  /\ f.base_code = g.base_code
  /\ PspecsEq(f.base, g.base)
  /\ Len(f.layers) = Len(g.layers)
  /\ \A i \in 1..Len(f.layers) : f.layers[i].closure = g.layers[i].closure

\* HashableFunction.__hash__: hash((code, closure)).
ThunkHash(f) ==
  <<f.base_code, PspecsHash(f.base),
    [i \in 1..Len(f.layers) |-> f.layers[i].closure]>>

\* The parameters of a pjit call. With form "thunk" they are those of
\* pjit_call_p.bind (out_axis_resources_thunk); with form "final" those of a
\* call in a jaxpr (call_jaxpr and out_axis_resources). nargs is the number of
\* arguments of the call: len(call_jaxpr.invars) once there is a call_jaxpr.
Params(form, nargs, donated_invars, in_axis_resources, thunk, outs) ==
  [form |-> form, nargs |-> nargs, donated_invars |-> donated_invars,
   in_axis_resources |-> in_axis_resources,
   out_axis_resources_thunk |-> thunk, out_axis_resources |-> outs]

NoParams == Params("none", 0, <<>>, <<>>, NoThunk, <<>>)

\* Equality of two dicts of parameters.
ParamsEq(p, q) ==
  /\ p.form = q.form
  /\ p.nargs = q.nargs
  /\ p.donated_invars = q.donated_invars
  /\ PspecsEq(p.in_axis_resources, q.in_axis_resources)
  /\ ThunkEq(p.out_axis_resources_thunk, q.out_axis_resources_thunk)
  /\ PspecsEq(p.out_axis_resources, q.out_axis_resources)

\* The hashes of the parameters that enter the key of _pjit_callable.
ParamsHash(p) ==
  <<p.donated_invars, PspecsHash(p.in_axis_resources),
    ThunkHash(p.out_axis_resources_thunk)>>

\* What wrapped binds pjit_call_p with: one placement and one donation flag
\* per flattened argument, and the thunk over the declared output placements.
BoundParams ==
  UNION {{Params("thunk", n, d, a, HashableFunction("wrapped", o, <<>>), <<>>) :
            d \in Masks(n), a \in [1..n -> NodePlacements],
            o \in UNION {[1..k -> NodePlacements] : k \in 1..MaxOuts}} :
         n \in 0..MaxArgs}

WellFormed(p) ==
  Len(p.donated_invars) = p.nargs /\ Len(p.in_axis_resources) = p.nargs

\* _pjit_partial_eval_update_params, call_jaxpr having ninvars invars.
pjit_partial_eval_update_params(params, in_unknowns, ninvars) ==
  LET donated_invars == params.donated_invars
      in_axis_resources == params.in_axis_resources
      num_consts == ninvars - Len(donated_invars)
      new_out_axis_resources == ThunkCall(params.out_axis_resources_thunk)
  IN IF in_unknowns = <<>> /\ donated_invars # <<>>
       THEN Params("final", ninvars, Repeat(FALSE, ninvars),
                   Repeat(REPLICATED, ninvars), NoThunk, new_out_axis_resources)
       ELSE Params("final", ninvars,
                   Repeat(FALSE, num_consts) \o Filter(donated_invars, in_unknowns),
                   Repeat(REPLICATED, num_consts)
                     \o Filter(in_axis_resources, in_unknowns),
                   NoThunk, new_out_axis_resources)

\* A mutant of JvpClosure: the function object nz_tangents_out_thunk, new at
\* every call, is part of the closure.
JvpClosureWithOutThunk(nz_tangents, out_thunk_id) ==
  [nz |-> nz_tangents, ref |-> out_thunk_id]

\* closure=(tuple(nz_tangents), out_axis_resources_thunk): the part the layer
\* adds to the closure of the thunk inside.
JvpClosure(nz_tangents, out_thunk_id) == [nz |-> nz_tangents, ref |-> 0]

\* _pjit_jvp_update_params; nz_out is what nz_tangents_out_thunk() returns and
\* out_thunk_id the identity of that function object.
pjit_jvp_update_params(params, nz_tangents, nz_out, out_thunk_id) ==
  LET donated_invars == params.donated_invars
      in_axis_resources == params.in_axis_resources
      out_axis_resources_thunk == params.out_axis_resources_thunk
      new_out_axis_resources_thunk ==
        HashableFunction(out_axis_resources_thunk.base_code,
                         out_axis_resources_thunk.base,
                         Append(out_axis_resources_thunk.layers,
                                [closure |-> JvpClosure(nz_tangents, out_thunk_id),
                                 nz_out |-> nz_out]))
  IN Params("thunk", params.nargs + NumTrue(nz_tangents),
            donated_invars \o Filter(donated_invars, nz_tangents),
            in_axis_resources \o Filter(in_axis_resources, nz_tangents),
            new_out_axis_resources_thunk, <<>>)

\* _pjit_init_to_final_params
pjit_init_to_final_params(params) ==
  [params EXCEPT !.form = "thunk",
                 !.out_axis_resources_thunk =
                   HashableFunction("final", params.out_axis_resources, <<>>),
                 !.out_axis_resources = <<>>]

NoOp == [op |-> "none", mask |-> <<>>, consts |-> 0]

NodeIdle ==
  /\ node = NoParams
  /\ prev = NoParams
  /\ lastOp = NoOp
  /\ again = NoParams
  /\ nextObj = 1
  /\ nrewrites = 0
  /\ typed = NotTyped
  /\ emitted = <<>>

\* JVPTrace.process_call: the call is bound again with the primals followed
\* by the nonzero tangents.
Jvp ==
  /\ node.form = "thunk"
  /\ nrewrites < MaxRewrites
  /\ node.nargs <= MaxArgs
  /\ Len(ThunkCall(node.out_axis_resources_thunk)) <= MaxOuts
  /\ \E nz \in Masks(node.nargs),
        nz_out \in Masks(Len(ThunkCall(node.out_axis_resources_thunk))) :
       /\ node' = pjit_jvp_update_params(node, nz, nz_out, nextObj)
       /\ lastOp' = [op |-> "jvp", mask |-> nz, consts |-> 0]
  /\ prev' = node
  /\ again' = NoParams
  /\ nextObj' = nextObj + 1
  /\ nrewrites' = nrewrites + 1
  /\ UNCHANGED <<checkVars, cacheVars, typed, emitted>>

\* JaxprTrace.process_call: the known arguments are dropped and the constants
\* prepended, so call_jaxpr has one invar per constant and per unknown
\* argument.
PartialEval ==
  /\ node.form = "thunk"
  /\ nrewrites < MaxRewrites
  /\ node.nargs <= MaxArgs
  /\ \E in_unknowns \in Masks(node.nargs), consts \in 0..MaxConsts :
       /\ node' = pjit_partial_eval_update_params(node, in_unknowns,
                                                   consts + NumTrue(in_unknowns))
       /\ lastOp' = [op |-> "partial_eval", mask |-> in_unknowns,
                     consts |-> consts]
  /\ prev' = node
  /\ again' = NoParams
  /\ nrewrites' = nrewrites + 1
  /\ UNCHANGED nextObj
  /\ UNCHANGED <<checkVars, cacheVars, typed, emitted>>

\* JaxprTrace.post_process_call: the call is made with no input tracers; the
\* invars of call_jaxpr are the constants.
PostProcess ==
  /\ node.form = "thunk"
  /\ nrewrites < MaxRewrites
  /\ \E consts \in 0..MaxConsts :
       /\ node' = pjit_partial_eval_update_params(node, <<>>, consts)
       /\ lastOp' = [op |-> "post_process", mask |-> <<>>, consts |-> consts]
  /\ prev' = node
  /\ again' = NoParams
  /\ nrewrites' = nrewrites + 1
  /\ UNCHANGED nextObj
  /\ UNCHANGED <<checkVars, cacheVars, typed, emitted>>

\* The call of a jaxpr is bound again (core.initial_to_final_param_rules).
InitToFinal ==
  /\ node.form = "final"
  /\ nrewrites < MaxRewrites
  /\ node' = pjit_init_to_final_params(node)
  /\ lastOp' = [NoOp EXCEPT !.op = "init_to_final"]
  /\ prev' = node
  /\ again' = NoParams
  /\ nrewrites' = nrewrites + 1
  /\ UNCHANGED nextObj
  /\ UNCHANGED <<checkVars, cacheVars, typed, emitted>>

\* The differentiation rewrite is derived a second time from the same
\* parameters and the same nonzero-tangent masks.
JvpAgain ==
  /\ lastOp.op = "jvp"
  /\ again = NoParams
  /\ again' = pjit_jvp_update_params(
                 prev, lastOp.mask,
                 node.out_axis_resources_thunk.layers[
                   Len(node.out_axis_resources_thunk.layers)].nz_out,
                 nextObj)
  /\ nextObj' = nextObj + 1
  /\ UNCHANGED <<node, prev, lastOp, nrewrites>>
  /\ UNCHANGED <<checkVars, cacheVars, typed, emitted>>

\* --------------------------------------------- the calls of _pjit_call_impl

\* The number of threads that call the engine.
NumThreads == 2
\* The number of calls made in one run.
MaxCalls == 3

Threads == 1..NumThreads

\* The arguments _pjit_call_impl is bound with: one function called with one
\* argument, replicated or split over "x", of length 4 or 8.
CallArgs ==
  {[fun |-> "f", in_axis_resources |-> <<p>>, out_axis_resources_thunk |-> "thunk",
    resource_env |-> "env", donated_invars |-> <<FALSE>>, name |-> "f",
    in_avals |-> <<a>>] : p \in {REPLICATED, PX}, a \in {<<4>>, <<8>>}}

NoCall ==
  [fun |-> "", in_axis_resources |-> <<>>, out_axis_resources_thunk |-> "",
   resource_env |-> "", donated_invars |-> <<>>, name |-> "", in_avals |-> <<>>]

\* A mutant of CacheKey: the abstract values of the arguments are left out.
CacheKeyWithoutAvals(c) == [c EXCEPT !.in_avals = <<>>]

\* The positional arguments _pjit_call_impl hands to the memoized
\* _pjit_callable: all seven are part of the key.
CacheKey(c) == c

NoArtifact == [id |-> 0, args |-> NoCall]

CacheIdle ==
  /\ cache = [k \in {} |-> NoArtifact]
  /\ tpc = [t \in Threads |-> "idle"]
  /\ tcall = [t \in Threads |-> NoCall]
  /\ tart = [t \in Threads |-> NoArtifact]
  /\ tcompiled = [t \in Threads |-> FALSE]
  /\ tretry = [t \in Threads |-> FALSE]
  /\ snap = cache
  /\ lastDone = [call |-> NoCall, outcome |-> "none"]
  /\ started = [c \in CallArgs |-> 0]
  /\ okCompiles = [c \in CallArgs |-> 0]
  /\ returned = {}
  /\ nextId = 1
  /\ ncalls = 0

AllIdle == \A t \in Threads : tpc[t] = "idle"

\* _pjit_call_impl computes in_avals and calls the memoized _pjit_callable,
\* which finds the key in its table.
CallHit(t, c) ==
  /\ tpc[t] = "idle"
  /\ ncalls < MaxCalls
  /\ CacheKey(c) \in DOMAIN cache
  /\ tpc' = [tpc EXCEPT ![t] = "run"]
  /\ tcall' = [tcall EXCEPT ![t] = c]
  /\ tart' = [tart EXCEPT ![t] = cache[CacheKey(c)]]
  /\ tcompiled' = [tcompiled EXCEPT ![t] = FALSE]
  /\ tretry' = [tretry EXCEPT ![t] = lastDone = [call |-> c, outcome |-> "error"]]
  /\ snap' = cache
  /\ ncalls' = ncalls + 1
  /\ UNCHANGED <<cache, lastDone, started, okCompiles, returned, nextId>>
  /\ UNCHANGED <<checkVars, nodeVars>>

\* The same, the key not being in the table: _pjit_callable's body runs and
\* invokes pxla.mesh_callable.
CallMiss(t, c) ==
  /\ tpc[t] = "idle"
  /\ ncalls < MaxCalls
  /\ CacheKey(c) \notin DOMAIN cache
  /\ tpc' = [tpc EXCEPT ![t] = "compile"]
  /\ tcall' = [tcall EXCEPT ![t] = c]
  /\ tart' = [tart EXCEPT ![t] = NoArtifact]
  /\ tcompiled' = [tcompiled EXCEPT ![t] = TRUE]
  /\ tretry' = [tretry EXCEPT ![t] = lastDone = [call |-> c, outcome |-> "error"]]
  /\ snap' = cache
  /\ started' = [started EXCEPT ![c] = @ + 1]
  /\ ncalls' = ncalls + 1
  /\ UNCHANGED <<cache, lastDone, okCompiles, returned, nextId>>
  /\ UNCHANGED <<checkVars, nodeVars>>

\* pxla.mesh_callable returns a new executable, compiled for the call's
\* arguments.
CompileOk(t) ==
  /\ tpc[t] = "compile"
  /\ tart' = [tart EXCEPT ![t] = [id |-> nextId, args |-> tcall[t]]]
  /\ nextId' = nextId + 1
  /\ okCompiles' = [okCompiles EXCEPT ![tcall[t]] = @ + 1]
  /\ tpc' = [tpc EXCEPT ![t] = "store"]
  /\ UNCHANGED <<cache, tcall, tcompiled, tretry, snap, lastDone, started,
                 returned, ncalls>>
  /\ UNCHANGED <<checkVars, nodeVars>>

\* A mutant of CompileFail: the failure is kept in the table under the key.
CompileFailStored(t) ==
  /\ tpc[t] = "compile"
  /\ tpc' = [tpc EXCEPT ![t] = "idle"]
  /\ lastDone' = [call |-> tcall[t], outcome |-> "error"]
  /\ cache' = [k \in DOMAIN cache \cup {CacheKey(tcall[t])} |->
                 IF k = CacheKey(tcall[t]) THEN NoArtifact ELSE cache[k]]
  /\ UNCHANGED <<tcall, tart, tcompiled, tretry, snap, started, okCompiles,
                 returned, nextId, ncalls>>
  /\ UNCHANGED <<checkVars, nodeVars>>

\* pxla.mesh_callable raises: the error leaves _pjit_callable and
\* _pjit_call_impl, neither of which catches it.
CompileFail(t) ==
  /\ tpc[t] = "compile"
  /\ tpc' = [tpc EXCEPT ![t] = "idle"]
  /\ lastDone' = [call |-> tcall[t], outcome |-> "error"]
  /\ UNCHANGED <<cache, tcall, tart, tcompiled, tretry, snap, started,
                 okCompiles, returned, nextId, ncalls>>
  /\ UNCHANGED <<checkVars, nodeVars>>

\* The memoizing wrapper puts what _pjit_callable returned under the key.
Store(t) ==
  /\ tpc[t] = "store"
  /\ cache' = [k \in DOMAIN cache \cup {CacheKey(tcall[t])} |->
                 IF k = CacheKey(tcall[t]) THEN tart[t] ELSE cache[k]]
  /\ tpc' = [tpc EXCEPT ![t] = "run"]
  /\ UNCHANGED <<tcall, tart, tcompiled, tretry, snap, lastDone, started,
                 okCompiles, returned, nextId, ncalls>>
  /\ UNCHANGED <<checkVars, nodeVars>>

\* return pjit_callable(*args)
Run(t) ==
  /\ tpc[t] = "run"
  /\ returned' = returned \cup {[call |-> tcall[t], art |-> tart[t]]}
  /\ tpc' = [tpc EXCEPT ![t] = "idle"]
  /\ lastDone' = [call |-> tcall[t], outcome |-> "ok"]
  /\ UNCHANGED <<cache, tcall, tart, tcompiled, tretry, snap, started,
                 okCompiles, nextId, ncalls>>
  /\ UNCHANGED <<checkVars, nodeVars>>

CheckIdle ==
  /\ axis_resources = [isNone |-> TRUE, leaves |-> <<>>]
  /\ local_shape = [a \in {} |-> 1]
  /\ val_shape = <<>>
  /\ prepared = NotPrepared
  /\ checked = NoError
  /\ pc = "start"
  /\ wrapper = NoWrapper

CacheInit == CheckIdle /\ CacheIdle /\ NodeIdle

\* Threads call the engine concurrently.
CacheNext ==
  \E t \in Threads :
    \/ \E c \in CallArgs : CallHit(t, c)
    \/ \E c \in CallArgs : CallMiss(t, c)
    \/ CompileOk(t)
    \/ CompileFail(t)
    \/ Store(t)
    \/ Run(t)

SpecCache == CacheInit /\ [][CacheNext]_vars

\* One call at a time: a call begins when no other is under way.
SeqCallHit(t, c) == AllIdle /\ CallHit(t, c)

SeqCallMiss(t, c) == AllIdle /\ CallMiss(t, c)

SeqNext ==
  \E t \in Threads :
    \/ \E c \in CallArgs : SeqCallHit(t, c)
    \/ \E c \in CallArgs : SeqCallMiss(t, c)
    \/ CompileOk(t)
    \/ CompileFail(t)
    \/ Store(t)
    \/ Run(t)

SpecSeq == CacheInit /\ [][SeqNext]_vars

\* A call bound by wrapped, then rewritten.
RewriteInit ==
  /\ CheckIdle
  /\ CacheIdle
  /\ node \in BoundParams
  /\ prev = NoParams
  /\ lastOp = NoOp
  /\ again = NoParams
  /\ nextObj = 1
  /\ nrewrites = 0
  /\ typed = NotTyped
  /\ emitted = <<>>

RewriteNext == Jvp \/ PartialEval \/ PostProcess \/ InitToFinal \/ JvpAgain

SpecRewrite == RewriteInit /\ [][RewriteNext]_vars

\* pxla.resource_typecheck reaches the call in a jaxpr: call_jaxpr has
\* node.nargs invars and one outvar per output placement.
Typecheck ==
  /\ node.form = "final"
  /\ ~typed.done
  /\ \E in_named \in [1..node.nargs -> SUBSET NamedAxes],
        out_named \in [1..Len(node.out_axis_resources) -> SUBSET NamedAxes],
        named_axis_resources \in [NamedAxes -> NameTuples],
        body_ok \in BOOLEAN :
       typed' = [done |-> TRUE, in_named |-> in_named,
                 out_named |-> out_named,
                 named_axis_resources |-> named_axis_resources,
                 body_ok |-> body_ok,
                 result |-> resource_typing_pjit(in_named, out_named, node,
                                                 named_axis_resources, body_ok)]
  /\ UNCHANGED <<node, prev, lastOp, again, nextObj, nrewrites, emitted>>
  /\ UNCHANGED <<checkVars, cacheVars>>

\* A call bound by wrapped, staged out by partial evaluation, then typed.
TypingNext == PartialEval \/ PostProcess \/ Typecheck

SpecTyping == RewriteInit /\ [][TypingNext]_vars

\* ------------------------------------------ with_sharding_constraint(x, ...)

CheckInit ==
  /\ CacheIdle
  /\ NodeIdle
  /\ axis_resources \in AxisResourcesArgs
  /\ local_shape = [a \in {} |-> 1]
  /\ val_shape = <<>>
  /\ prepared = NotPrepared
  /\ checked = NoError
  /\ pc = "start"
  /\ wrapper = NoWrapper

\* parsed_axis_resources, entries, _ = _prepare_axis_resources(axis_resources, ...)
PrepareAxisResources ==
  /\ pc = "start"
  /\ prepared' = prepare_axis_resources(axis_resources)
  /\ pc' = IF prepared'.status.err = "none" THEN "prepared" ELSE "raised"
  /\ UNCHANGED <<axis_resources, local_shape, val_shape, checked, wrapper>>
  /\ UNCHANGED <<cacheVars, nodeVars>>

\* flatten_axes pairs every flattened value with its leaf's placement.
flat_axis_resources == prepared.entries

flat_shapes(shape) == [k \in 1..Len(prepared.entries) |-> shape]

\* resource_env = maps.thread_resources.env, read at the call, and
\* _check_shapes_against_resources(..., resource_env, x_flat, axis_resources_flat)
\* on the values x the call was given.
CheckShapes ==
  /\ pc = "prepared"
  /\ \E mesh \in Meshes, shape \in Shapes :
       /\ local_shape' = mesh
       /\ val_shape' = shape
       /\ checked' = check_shapes_against_resources(mesh, flat_shapes(shape),
                                                    flat_axis_resources)
  /\ pc' = "checked"
  /\ UNCHANGED <<axis_resources, prepared, wrapper>>
  /\ UNCHANGED <<cacheVars, nodeVars>>

CheckNext == PrepareAxisResources \/ CheckShapes

SpecCheck == CheckInit /\ [][CheckNext]_vars

\* --------------------------------------------------- pjit(fun, ...) calls

\* The declarations pjit is given in this component: None, a leaf that is not
\* a PartitionSpec, PartitionSpec('x'), PartitionSpec('x', 'x') and
\* PartitionSpec(None).
PjitDecls ==
  LET x == [kind |-> "name", names |-> <<"x">>]
      none == [kind |-> "None", names |-> <<>>]
      P(elems) == [kind |-> "PartitionSpec", elems |-> elems]
  IN {[isNone |-> TRUE, leaves |-> <<>>]}
       \cup {[isNone |-> FALSE, leaves |-> <<e>>] :
               e \in {OtherEntry, P(<<x>>), P(<<x, x>>), P(<<none>>)}}

\* The shapes of the arguments and outputs of a call: none or one value, a
\* scalar or a vector.
PjitArgs == {<<>>} \cup {<<shape>> : shape \in {<<>>, <<3>>, <<4>>}}

\* maps.thread_resources.env at the call: no mesh, or a mesh with the axis "x".
PjitEnvs == {"no_mesh", "mesh_x"}

\* resource_env.local_shape
EnvShape(env) ==
  IF env = "mesh_x" THEN [a \in {"x"} |-> MaxAxisSize] ELSE [a \in {} |-> 1]

\* The parameters pjit_call_p.bind hands to _pjit_call_impl.
PjitCallRecord(in_flat, donated, env, avals) ==
  [fun |-> "f", in_axis_resources |-> in_flat,
   out_axis_resources_thunk |-> "thunk", resource_env |-> env,
   donated_invars |-> donated, name |-> "f", in_avals |-> avals]

PjitCalls ==
  {PjitCallRecord(in_flat, donated, env, avals) :
     in_flat \in {<<>>} \cup {<<p>> : p \in NodePlacements},
     donated \in {<<>>, <<FALSE>>, <<TRUE>>},
     env \in PjitEnvs, avals \in PjitArgs}

\* max(static_argnums + donate_argnums, default=-1), static_argnums being ().
MaxArgnum(argnums) == IF argnums = <<>> THEN -1 ELSE argnums[Len(argnums)]

\* flatten_axes: the one leaf of the declaration, for each flattened value.
broadcast_entries(prep, n) == Repeat(prep.entries[1], n)

\* donation_vector(donate_argnums, dyn_args, ()), or (False,) * len(args_flat).
donation_vector(donate_argnums, n) ==
  [i \in 1..n |-> \E k \in 1..Len(donate_argnums) : donate_argnums[k] = i - 1]

PjitInit ==
  /\ NodeIdle
  /\ axis_resources \in PjitDecls
  /\ local_shape = [a \in {} |-> 1]
  /\ val_shape = <<>>
  /\ prepared = NotPrepared
  /\ checked = NoError
  /\ pc = "start"
  /\ wrapper \in {[NoWrapper EXCEPT !.out_axis_resources = o,
                                     !.donate_argnums = d] :
                    o \in PjitDecls, d \in {<<>>, <<0>>}}
  /\ cache = [k \in {} |-> NoArtifact]
  /\ tpc = [t \in Threads |-> "idle"]
  /\ tcall = [t \in Threads |-> NoCall]
  /\ tart = [t \in Threads |-> NoArtifact]
  /\ tcompiled = [t \in Threads |-> FALSE]
  /\ tretry = [t \in Threads |-> FALSE]
  /\ snap = cache
  /\ lastDone = [call |-> NoCall, outcome |-> "none"]
  /\ started = [c \in PjitCalls |-> 0]
  /\ okCompiles = [c \in PjitCalls |-> 0]
  /\ returned = {}
  /\ nextId = 1
  /\ ncalls = 0

\* pjit: in_axis_resources is prepared, then out_axis_resources; wrapped is
\* returned if neither raises.
PjitCreate ==
  /\ pc = "start"
  /\ prepared' = prepare_axis_resources(axis_resources)
  /\ wrapper' = [wrapper EXCEPT !.out_prepared =
                   IF prepared'.status.err = "none"
                     THEN prepare_axis_resources(wrapper.out_axis_resources)
                     ELSE NotPrepared]
  /\ pc' = IF prepared'.status.err = "none"
              /\ wrapper'.out_prepared.status.err = "none"
             THEN "wrapped" ELSE "raised"
  /\ UNCHANGED <<axis_resources, local_shape, val_shape, checked>>
  /\ UNCHANGED <<cacheVars, nodeVars>>

\* A mutant of ReadyToBind: the call is bound whatever the checks said.
ReadyToBindUnchecked == pc = "called" /\ wrapper.seq = ncalls

\* wrapped reaches pjit_call_p.bind: neither the check of the argument
\* indices nor _check_shapes_against_resources raised.
ReadyToBind == pc = "called" /\ wrapper.seq = ncalls /\ wrapper.raised = "none"

\* wrapped(*args), up to pjit_call_p.bind: the argument indices are checked,
\* resource_env is read, then the shapes of the arguments are checked.
WrappedChecks ==
  /\ pc \in {"wrapped", "called"}
  /\ tpc[1] = "idle"
  /\ ~ReadyToBind
  /\ ncalls < MaxCalls
  /\ \E args \in PjitArgs, env \in PjitEnvs :
       LET bad_argnums == MaxArgnum(wrapper.donate_argnums) >= Len(args)
           res == check_shapes_against_resources(
                    EnvShape(env), args,
                    broadcast_entries(prepared, Len(args)))
       IN /\ local_shape' = IF bad_argnums THEN local_shape ELSE EnvShape(env)
          /\ checked' = IF bad_argnums THEN NoError ELSE res
          /\ wrapper' = [wrapper EXCEPT
                           !.args = args, !.env = env,
                           !.raised = IF bad_argnums THEN "argnums"
                                      ELSE IF res.err # "none" THEN "shapes"
                                      ELSE "none",
                           !.seq = ncalls, !.cache_before = cache]
  /\ pc' = "called"
  /\ UNCHANGED <<axis_resources, val_shape, prepared>>
  /\ UNCHANGED <<cacheVars, nodeVars>>

\* The parameters of the call wrapped binds.
BoundCall ==
  PjitCallRecord(broadcast_entries(prepared, Len(wrapper.args)),
                 donation_vector(wrapper.donate_argnums, Len(wrapper.args)),
                 wrapper.env, wrapper.args)

\* pjit_call_p.bind runs _pjit_call_impl, whose key is in the table.
WrappedBindHit == ReadyToBind /\ CallHit(1, BoundCall)

\* The same, the key not being in the table.
WrappedBindMiss == ReadyToBind /\ CallMiss(1, BoundCall)

\* pxla.mesh_callable traces flat_fun: _check_output_shapes checks the shapes
\* of the outputs against out_axis_resources_thunk() and raises.
TraceOutputsFail ==
  /\ tpc[1] = "compile"
  /\ \E outputs \in PjitArgs :
       check_shapes_against_resources(
         EnvShape(tcall[1].resource_env), outputs,
         broadcast_entries(wrapper.out_prepared, Len(outputs))).err # "none"
  /\ CompileFail(1)

\* The same, the outputs passing the check: the executable is compiled.
TraceOutputsOk ==
  /\ tpc[1] = "compile"
  /\ \E outputs \in PjitArgs :
       check_shapes_against_resources(
         EnvShape(tcall[1].resource_env), outputs,
         broadcast_entries(wrapper.out_prepared, Len(outputs))).err = "none"
  /\ CompileOk(1)

PjitNext ==
  \/ PjitCreate
  \/ WrappedChecks
  \/ WrappedBindHit
  \/ WrappedBindMiss
  \/ TraceOutputsFail
  \/ TraceOutputsOk
  \/ CompileFail(1)
  \/ Store(1)
  \/ Run(1)

SpecPjit == PjitInit /\ [][PjitNext]_vars

\* -------------------------------------------------- the array mappings

\* The (axis, i) pairs get_array_mapping iterates over: for i, axes in
\* enumerate(axis_resources), for axis in axes; from dimension i on.
RECURSIVE AxisPairsFrom(_, _)
AxisPairsFrom(parts, i) ==
  IF i > Len(parts) THEN <<>>
  ELSE [j \in 1..Len(parts[i]) |-> [axis |-> parts[i][j], dim |-> i - 1]]
         \o AxisPairsFrom(parts, i + 1)

\* OrderedDict(pairs): a key set again keeps its place and takes the new
\* value.
RECURSIVE OrderedDict(_, _)
OrderedDict(pairs, d) ==
  IF pairs = <<>> THEN d
  ELSE LET kv == Head(pairs)
       IN IF \E j \in 1..Len(d) : d[j].axis = kv.axis
            THEN OrderedDict(Tail(pairs),
                             [j \in 1..Len(d) |->
                                IF d[j].axis = kv.axis THEN kv ELSE d[j]])
            ELSE OrderedDict(Tail(pairs), Append(d, kv))

\* get_array_mapping
get_array_mapping(pspec) ==
  OrderedDict(AxisPairsFrom(pspec.partitions, 1), <<>>)

\* [get_array_mapping(axes) for axes in placements], each kept with the
\* placement it was made for.
array_mappings(placements) ==
  [k \in 1..Len(placements) |->
     [placement |-> placements[k],
      mapping |-> get_array_mapping(placements[k])]]

\* The declarations pjit is given in this component.
EmitDecls ==
  LET x == [kind |-> "name", names |-> <<"x">>]
      y == [kind |-> "name", names |-> <<"y">>]
      xy == [kind |-> "tuple", names |-> <<"x", "y">>]
      xx == [kind |-> "tuple", names |-> <<"x", "x">>]
      none == [kind |-> "None", names |-> <<>>]
      P(elems) == [kind |-> "PartitionSpec", elems |-> elems]
  IN {[isNone |-> TRUE, leaves |-> <<>>]}
       \cup {[isNone |-> FALSE, leaves |-> <<e>>] :
               e \in {P(<<>>), P(<<x>>), P(<<x, y>>), P(<<y, x>>), P(<<xy>>),
                      P(<<none, x>>), P(<<x, x>>), P(<<xx>>)}}

\* The declarations of the outputs: None, one naming two axes in two
\* dimensions, and those naming an axis twice.
EmitOutDecls ==
  {d \in EmitDecls :
     \/ d.isNone
     \/ Len(d.leaves[1].elems) = 2 /\ d.leaves[1].elems[1].names = <<"y">>
     \/ \E i \in 1..Len(d.leaves[1].elems) :
          d.leaves[1].elems[i].names = <<"x", "x">>
     \/ Len(d.leaves[1].elems) = 2
          /\ d.leaves[1].elems[1].names = d.leaves[1].elems[2].names}

EmitInit ==
  /\ CacheIdle
  /\ NodeIdle
  /\ axis_resources \in EmitDecls
  /\ local_shape = [a \in {} |-> 1]
  /\ val_shape = <<>>
  /\ prepared = NotPrepared
  /\ checked = NoError
  /\ pc = "start"
  /\ wrapper \in {[NoWrapper EXCEPT !.out_axis_resources = o] : o \in EmitOutDecls}

\* wrapped binds the call: every argument and every output has the placement
\* its declaration gives it.
EmitBind ==
  /\ pc = "wrapped"
  /\ node = NoParams
  /\ \E n \in 0..MaxArgs, k \in 1..MaxOuts :
       node' = Params("thunk", n, Repeat(FALSE, n),
                      broadcast_entries(prepared, n),
                      HashableFunction("wrapped",
                                       broadcast_entries(wrapper.out_prepared, k),
                                       <<>>),
                      <<>>)
  /\ UNCHANGED <<prev, lastOp, again, nextObj, nrewrites, typed, emitted>>
  /\ UNCHANGED <<checkVars, cacheVars>>

\* _pjit_callable: in_axes and out_axes() are made from in_axis_resources and
\* out_axis_resources_thunk().
EmitCallable ==
  /\ node.form = "thunk"
  /\ emitted = <<>>
  /\ emitted' = array_mappings(node.in_axis_resources
                                 \o ThunkCall(node.out_axis_resources_thunk))
  /\ emitted' # <<>>
  /\ UNCHANGED <<node, prev, lastOp, again, nextObj, nrewrites, typed>>
  /\ UNCHANGED <<checkVars, cacheVars>>

\* _pjit_translation_rule: get_sharding_proto makes the mapping of every
\* entry of in_axis_resources and out_axis_resources.
EmitTranslation ==
  /\ node.form = "final"
  /\ emitted = <<>>
  /\ emitted' = array_mappings(node.in_axis_resources \o node.out_axis_resources)
  /\ emitted' # <<>>
  /\ UNCHANGED <<node, prev, lastOp, again, nextObj, nrewrites, typed>>
  /\ UNCHANGED <<checkVars, cacheVars>>

\* The call is rewritten until it is lowered.
EmitJvp == emitted = <<>> /\ Jvp

EmitPartialEval == emitted = <<>> /\ PartialEval

EmitPostProcess == emitted = <<>> /\ PostProcess

EmitInitToFinal == emitted = <<>> /\ InitToFinal

EmitNext ==
  \/ PjitCreate
  \/ EmitBind
  \/ EmitJvp
  \/ EmitPartialEval
  \/ EmitPostProcess
  \/ EmitInitToFinal
  \/ EmitCallable
  \/ EmitTranslation

SpecEmit == EmitInit /\ [][EmitNext]_vars

\* ------------------------------------------- properties of the declarations

Range(s) == {s[i] : i \in 1..Len(s)}

\* The product of the mesh sizes of a set of axes (1 for the empty set).
RECURSIVE SetProduct(_, _)
SetProduct(S, mesh) ==
  IF S = {} THEN 1
  ELSE LET a == CHOOSE b \in S : TRUE IN mesh[a] * SetProduct(S \ {a}, mesh)

AllAxesDefined(p, mesh) ==
  \A i \in 1..Len(p.partitions) : Range(p.partitions[i]) \subseteq DOMAIN mesh

\* rank(s) >= dims(p) and every declared dimension is divisible by the
\* product of the sizes of its axes.
Compatible(mesh, s, p) ==
  /\ Len(s) >= Len(p.partitions)
  /\ \A i \in 1..Len(p.partitions) :
       s[i] % SetProduct(Range(p.partitions[i]), mesh) = 0

\* C1: for placements whose axes are all defined in the mesh, the shape check
\* raises nothing if and only if every value has at least as many dimensions
\* as its placement and each declared dimension is divisible by the product
\* of the mesh sizes of the axes assigned to it.
C1_ShapeCheckIff ==
  (pc = "checked" /\ \A k \in 1..Len(prepared.entries) :
                        AllAxesDefined(prepared.entries[k], local_shape))
    => ((checked.err = "none")
          <=> \A k \in 1..Len(prepared.entries) :
                Compatible(local_shape, val_shape, prepared.entries[k]))

\* A dimension of size 4 split over two axes of size 2 each passes the check.
C1_Witness ==
  /\ pc = "checked"
  /\ checked.err = "none"
  /\ \E k \in 1..Len(prepared.entries) :
       /\ Len(prepared.entries[k].partitions) >= 1
       /\ Len(prepared.entries[k].partitions[1]) = 2
       /\ resource_size(prepared.entries[k].partitions[1], local_shape) = 4
       /\ val_shape[1] = 4

\* The names a placement mentions more than once.
UsedMoreThanOnce(p) ==
  {a \in AxisNames : Count(Chain(p.partitions), a) > 1}

\* Some axis is in the sets of two different dimensions.
InTwoDimensions(p) ==
  \E i, j \in 1..Len(p.partitions) :
    i # j /\ Range(p.partitions[i]) \cap Range(p.partitions[j]) # {}

ParsedLeaves ==
  [k \in 1..Len(axis_resources.leaves) |->
     from_user_input(axis_resources.leaves[k]).val]

Prepared ==
  /\ pc # "start"
  /\ ~axis_resources.isNone
  /\ FirstBadLeaf(axis_resources.leaves, 1) = 0

\* C8: a placement with an axis in two different dimensions is rejected with
\* a ValueError that names exactly the axes used more than once; an empty
\* declaration is skipped; and a placement in which every axis appears in at
\* most one dimension's set is accepted.
C8_UniquenessChecker ==
  Prepared =>
    /\ (\E k \in 1..Len(ParsedLeaves) : InTwoDimensions(ParsedLeaves[k]))
         => /\ prepared.status.err = "ValueError"
            /\ InTwoDimensions(ParsedLeaves[prepared.status.at])
            /\ Range(prepared.status.axes)
                 = UsedMoreThanOnce(ParsedLeaves[prepared.status.at])
    /\ (\A k \in 1..Len(ParsedLeaves) : ~InTwoDimensions(ParsedLeaves[k]))
         => prepared.status.err = "none"

\* C9: every parsed placement with no dimensions equals REPLICATED, parsing
\* None gives REPLICATED, and REPLICATED passes the shape check whatever the
\* shape and the mesh.
C9_ReplicatedUnique ==
  /\ Prepared =>
       \A k \in 1..Len(ParsedLeaves) :
         /\ Len(ParsedLeaves[k].partitions) = 0
              => PspecEq(ParsedLeaves[k], REPLICATED)
         /\ axis_resources.leaves[k] = NoneEntry
              => PspecEq(ParsedLeaves[k], REPLICATED)
  /\ (pc # "start" /\ axis_resources.isNone)
       => prepared.entries = <<REPLICATED>>
  /\ pc = "checked" =>
       \A k \in 1..Len(prepared.entries) :
         PspecEq(prepared.entries[k], REPLICATED) => checked.at # k

\* ----------------------------------------------- properties of the cache

ArtifactsRun(c) == {r.art : r \in {q \in returned : q.call = c}}

Compiling(c) == {t \in Threads : tpc[t] = "compile" /\ tcall[t] = c}

\* C2, as stated: over any sequence of calls pxla.mesh_callable is invoked
\* once per distinct cache key, and a repeated call with the same key runs the
\* artifact of the first.
C2_OneInvocationPerKey ==
  \A c \in CallArgs :
    /\ started[c] <= 1
    /\ Cardinality(ArtifactsRun(c)) <= 1

\* C2, amended: over any sequence of calls, one after the other, at most one
\* invocation of pxla.mesh_callable per distinct cache key returns an
\* executable; every call that runs an executable runs the one compiled for
\* its own key; and once a key has its executable no call with that key
\* invokes pxla.mesh_callable again.
C2_OneExecutablePerKey ==
  \A c \in CallArgs :
    /\ okCompiles[c] <= 1
    /\ Cardinality(ArtifactsRun(c)) <= 1
    /\ \A a \in ArtifactsRun(c) : a.args = c /\ okCompiles[c] = 1
    /\ \A t \in Threads :
         (tpc[t] = "run" /\ tcall[t] = c) => (tart[t].args = c /\ okCompiles[c] = 1)
    /\ Compiling(c) # {} => okCompiles[c] = 0

\* A repeated call found its key in the table and holds the artifact an
\* earlier call with the same key ran.
C2_Witness ==
  \E t \in Threads :
    /\ tpc[t] = "run"
    /\ ~tcompiled[t]
    /\ [call |-> tcall[t], art |-> tart[t]] \in returned

C4_FailureNotCached ==
  /\ (AllIdle /\ lastDone.outcome = "error")
       => (cache = snap /\ CacheKey(lastDone.call) \notin DOMAIN cache)
  /\ \A t \in Threads : (tpc[t] # "idle" /\ tretry[t]) => tcompiled[t]

\* A call repeats the call that failed just before it, and compiles again.
C4_Witness ==
  \E t \in Threads : tretry[t] /\ tpc[t] = "compile" /\ started[tcall[t]] = 2

\* ------------------------------------------ properties of the rewrites

\* C5: after the partial-evaluation rewrite of a call whose lists had one
\* entry per input, new_donated_invars and new_in_axis_resources have one
\* entry per invar of the rewritten call body (constants plus unknown inputs).
C5_LengthInvariant ==
  (lastOp.op \in {"partial_eval", "post_process"} /\ WellFormed(prev))
    => /\ node.nargs = lastOp.consts + NumTrue(lastOp.mask)
       /\ Len(node.donated_invars) = node.nargs
       /\ Len(node.in_axis_resources) = node.nargs

\* The position of the k-th TRUE of a mask.
KthTrue(mask, k) ==
  CHOOSE i \in 1..Len(mask) :
    mask[i] /\ Cardinality({j \in 1..i : mask[j]}) = k

\* new is old followed, in order, by old's entries at the TRUE positions of
\* mask, one per TRUE.
ExtendedBy(new, old, mask) ==
  /\ Len(new) = Len(old) + NumTrue(mask)
  /\ \A i \in 1..Len(old) : new[i] = old[i]
  /\ \A k \in 1..NumTrue(mask) : new[Len(old) + k] = old[KthTrue(mask, k)]

LastLayer(thunk) == thunk.layers[Len(thunk.layers)]

JvpRewriteAsClaimed ==
  /\ ExtendedBy(node.in_axis_resources, prev.in_axis_resources, lastOp.mask)
  /\ ExtendedBy(node.donated_invars, prev.donated_invars, lastOp.mask)
  /\ ExtendedBy(ThunkCall(node.out_axis_resources_thunk),
                ThunkCall(prev.out_axis_resources_thunk),
                LastLayer(node.out_axis_resources_thunk).nz_out)

\* C6: the differentiation rewrite leaves the input placements and donation
\* flags as a prefix and appends, in order, one entry per primal input whose
\* tangent is nonzero, equal to that primal's entry; the new thunk returns the
\* original output placements followed by those of the outputs whose tangent
\* is nonzero.
C6_JvpRewrite == lastOp.op = "jvp" => JvpRewriteAsClaimed

\* The same, for a call whose lists have one entry per argument.
JvpRewriteOfWellFormed ==
  (lastOp.op = "jvp" /\ WellFormed(prev)) => JvpRewriteAsClaimed

\* C7: the differentiation rewrite derived twice from the same parameters and
\* the same nonzero-tangent masks gives parameters that compare equal and hash
\* equal, the two new output-placement thunks included.
C7_ContentStable ==
  again # NoParams =>
    /\ ParamsEq(again, node)
    /\ ParamsHash(again) = ParamsHash(node)
    /\ ThunkEq(again.out_axis_resources_thunk, node.out_axis_resources_thunk)
    /\ ThunkHash(again.out_axis_resources_thunk)
         = ThunkHash(node.out_axis_resources_thunk)

\* The rewrite was derived twice, with some tangent nonzero, each time with a
\* nz_tangents_out_thunk of its own.
C7_Witness ==
  /\ again # NoParams
  /\ lastOp.op = "jvp"
  /\ NumTrue(lastOp.mask) >= 1
  /\ NumTrue(LastLayer(node.out_axis_resources_thunk).nz_out) >= 1
  /\ nextObj >= 3

\* -------------------------------------------- properties of the typing

\* The mesh axes a placement uses.
PlacementAxes(p) ==
  {a \in AxisNames :
     \E d \in 1..Len(p.partitions) : a \in Range(p.partitions[d])}

\* The mesh axes bound to the named axes of a named_shape.
BoundAxes(named_shape) ==
  {a \in AxisNames :
     \E n \in named_shape : a \in Range(typed.named_axis_resources[n])}

\* The placement of the j-th input of the staged call body: a constant is
\* replicated, an unknown argument keeps the placement it was bound with.
OwnInPlacement(j) ==
  IF lastOp.op = "post_process" \/ j <= lastOp.consts THEN REPLICATED
  ELSE prev.in_axis_resources[KthTrue(lastOp.mask, j - lastOp.consts)]

InOverlap(j) == PlacementAxes(OwnInPlacement(j)) \cap BoundAxes(typed.in_named[j])

OutOverlap(k) ==
  PlacementAxes(node.out_axis_resources[k]) \cap BoundAxes(typed.out_named[k])

TypingAsClaimed ==
  /\ typed.result.err = "JAXTypeError"
       <=> \/ \E j \in 1..node.nargs : InOverlap(j) # {}
           \/ ~typed.body_ok
           \/ \E k \in 1..Len(node.out_axis_resources) : OutOverlap(k) # {}
  /\ typed.result.what = "pjit input"
       => typed.result.overlap = InOverlap(typed.result.at)
  /\ typed.result.what = "pjit output"
       => typed.result.overlap = OutOverlap(typed.result.at)

\* C10: the typing of a call fails with a JAXTypeError exactly when, for some
\* input or output of the call body, the mesh axes of that value's own
\* placement meet the mesh axes bound to the named axes of its named_shape, or
\* the typing of the body fails; the reported overlap is that intersection.
C10_ResourceTyping == typed.done => TypingAsClaimed

\* The same, for a call whose input placements are those of its inputs, one
\* each and in order.
TypingOfAligned ==
  (/\ typed.done
   /\ Len(node.in_axis_resources) = node.nargs
   /\ \A j \in 1..node.nargs : node.in_axis_resources[j] = OwnInPlacement(j))
    => TypingAsClaimed

\* ------------------------------------------- properties of the pjit calls

\* Some declaration handed to pjit was refused.
DeclarationRefused ==
  prepared.status.err # "none" \/ wrapper.out_prepared.status.err # "none"

\* Nothing was handed to the engine: no call bound, no compilation started,
\* nothing in the table.
NothingCompiled ==
  /\ ncalls = 0
  /\ \A c \in PjitCalls : started[c] = 0
  /\ cache = <<>>
  /\ \A t \in Threads : tpc[t] = "idle"

\* The arguments of the latest call fit the wrapper: the argument indices are
\* in range and every argument's shape fits its placement in the mesh.
ArgumentsFit ==
  /\ \A k \in 1..Len(wrapper.donate_argnums) :
       wrapper.donate_argnums[k] < Len(wrapper.args)
  /\ \A i \in 1..Len(wrapper.args) :
       /\ AllAxesDefined(prepared.entries[1], EnvShape(wrapper.env))
       /\ Compatible(EnvShape(wrapper.env), wrapper.args[i], prepared.entries[1])

UndefinedDims(p, mesh) ==
  {i \in 1..Len(p.partitions) : ~(Range(p.partitions[i]) \subseteq DOMAIN mesh)}

Least(S) == CHOOSE i \in S : \A j \in S : i <= j

\* The k-th pair is the first the check can fail on, and its placement names
\* an axis absent from the mesh.
FirstWithUndefined(k) ==
  /\ pc = "checked"
  /\ k \in 1..Len(prepared.entries)
  /\ UndefinedDims(prepared.entries[k], local_shape) # {}
  /\ \A h \in 1..(k - 1) :
       /\ AllAxesDefined(prepared.entries[h], local_shape)
       /\ Compatible(local_shape, val_shape, prepared.entries[h])

\* The check failed on the k-th pair, reporting as undefined an axis of the
\* placement that the mesh does not have.
ReportsUndefined(k) ==
  /\ checked.err = "undefined"
  /\ checked.at = k
  /\ Len(checked.axes) = 1
  /\ checked.axes[1] \notin DOMAIN local_shape
  /\ \E i \in 1..Len(prepared.entries[k].partitions) :
       checked.axes[1] \in Range(prepared.entries[k].partitions[i])

\* C12 as stated: whenever some dimension of the placement names an axis
\* absent from the mesh, the check fails with the undefined-resource error
\* naming such an axis, never with a rank or divisibility error.
C12_UndefinedAlwaysReported ==
  \A k \in 1..Len(prepared.entries) :
    FirstWithUndefined(k) => ReportsUndefined(k)

\* The dimensions before d of the k-th placement that the value's size is not
\* divisible in.
IndivisibleBefore(k, d) ==
  {i \in 1..(d - 1) :
     val_shape[i] % SetProduct(Range(prepared.entries[k].partitions[i]),
                               local_shape) # 0}

\* The first axis of dimension d of the k-th placement, in declaration order,
\* that the mesh does not have.
FirstAbsent(k, d) ==
  LET axes == prepared.entries[k].partitions[d]
  IN axes[Least({j \in 1..Len(axes) : axes[j] \notin DOMAIN local_shape})]

\* C12, amended: such a check never succeeds; it fails with the rank error if
\* the value has fewer dimensions than the placement, else with the
\* divisibility error of the first indivisible dimension before the first one
\* naming an absent axis, else with the undefined-resource error naming the
\* first absent axis of that dimension.
C12_UndefinedNeverAccepted ==
  \A k \in 1..Len(prepared.entries) :
    FirstWithUndefined(k) =>
      LET p == prepared.entries[k]
          d == Least(UndefinedDims(p, local_shape))
      IN /\ checked.err # "none"
         /\ checked.at = k
         /\ IF Len(val_shape) < Len(p.partitions)
              THEN checked.err = "rank"
            ELSE IF IndivisibleBefore(k, d) # {}
              THEN /\ checked.err = "divisible"
                   /\ checked.dim = Least(IndivisibleBefore(k, d)) - 1
            ELSE /\ ReportsUndefined(k)
                 /\ checked.dim = d - 1
                 /\ checked.axes = <<FirstAbsent(k, d)>>

\* The undefined-resource error is raised for the second dimension of a
\* placement after the first dimension, split over a defined axis, passed.
C12_Witness ==
  /\ pc = "checked"
  /\ checked.err = "undefined"
  /\ checked.dim = 1
  /\ Len(prepared.entries[checked.at].partitions[1]) >= 1
  /\ UndefinedDims(prepared.entries[checked.at], local_shape) = {2}

\* ------------------------------------- properties of the array mappings

\* The axes placement p names.
NamedIn(p) == UNION {Range(p.partitions[i]) : i \in 1..Len(p.partitions)}

\* Placement p binds every axis to at most one dimension, once.
BindsOnce(p) ==
  \A a \in NamedIn(p) :
    Cardinality({<<i, j>> \in (1..Len(p.partitions)) \X (1..Cardinality(AxisNames)) :
                   j <= Len(p.partitions[i]) /\ p.partitions[i][j] = a}) = 1

\* C13: every placement get_array_mapping is applied to, after parsing and
\* any rewrites, binds each axis to at most one dimension, and the mapping
\* has exactly one entry per axis the placement names, whose value is the
\* index of the dimension containing the axis, the entries being in
\* dimension order.
C13_ArrayMappingInjective ==
  \A k \in 1..Len(emitted) :
    LET p == emitted[k].placement
        mapping == emitted[k].mapping
    IN /\ BindsOnce(p)
       /\ {mapping[j].axis : j \in 1..Len(mapping)} = NamedIn(p)
       /\ Len(mapping) = Cardinality(NamedIn(p))
       /\ \A j \in 1..Len(mapping) :
            /\ mapping[j].dim + 1 \in 1..Len(p.partitions)
            /\ mapping[j].axis \in Range(p.partitions[mapping[j].dim + 1])
       /\ \A i, j \in 1..Len(mapping) : i < j => mapping[i].dim <= mapping[j].dim

\* A mapping with two entries was made for a placement of a call that was
\* differentiated and partially evaluated.
C13_Witness ==
  /\ emitted # <<>>
  /\ nrewrites >= 2
  /\ node.form = "final"
  /\ \E k \in 1..Len(emitted) :
       /\ Len(emitted[k].mapping) = 2
       /\ Len(emitted[k].placement.partitions) = 2

====
